---- MODULE Spec2Model ----
(***************************************************************************)
(* Model of scpp/src/util/Logging.h: the severity macros, the CLOG macro,  *)
(* the Logging::logDebug / Logging::logTrace pre-checks and the DLogger    *)
(* message accumulator, together with the two functions the header         *)
(* imports from agora.utils.Log (getLogLevel, writeDLog).                  *)
(*                                                                         *)
(* The header only declares DLogger's constructor and destructor and the   *)
(* two agora functions; their bodies are modelled from the specification.  *)
(***************************************************************************)
EXTENDS Integers, Sequences, FiniteSets, TLC

(***************************************************************************)
(* Bounds of the model.                                                    *)
(***************************************************************************)
\* largest number of operator<< calls on one accumulator
MaxAppends == 2
\* number of threads of the concurrent scenario
NumThreads == 2

(***************************************************************************)
(* Severity macros, Logging.h lines 11-16.                                 *)
(***************************************************************************)
TRACE == 0
\* DEBUG as a level of its own, one above TRACE
DEBUG_distinct == TRACE + 1
DEBUG == 0
INFO  == 1
WARN  == 2
ERROR == 3
FATAL == 4

\* the six macro names a call site can write as the LEVEL argument of CLOG
SeverityNames == {"TRACE", "DEBUG", "INFO", "WARN", "ERROR", "FATAL"}

\* macro expansion: the integer the preprocessor substitutes for each name
LevelOf ==
    [n \in SeverityNames |->
        CASE n = "TRACE" -> TRACE
          [] n = "DEBUG" -> DEBUG
          [] n = "INFO"  -> INFO
          [] n = "WARN"  -> WARN
          [] n = "ERROR" -> ERROR
          [] n = "FATAL" -> FATAL]

\* the level values the configuration store can hold
Levels == {LevelOf[n] : n \in SeverityNames}

\* partitions (logger names) used by the call sites
Partitions == {"net", "storage"}

\* accumulator instances: one per executing log statement
Instances == 1..NumThreads

\* the single log statement driven by Spec: the first instance
Stmt == CHOOSE i \in Instances : \A j \in Instances : i <= j

(***************************************************************************)
(* Values a call site streams into an accumulator: string literals and     *)
(* ints.  ToText is what std::ostream's operator<< renders for each.       *)
(***************************************************************************)
\* The field names first occur here, in this order, so a fragment is built in
\* the order TLC normalises records to and workers never reorder a shared one.
StrFrag(text) == [kind |-> "str", str |-> text, num |-> 0]
IntFrag(number) == [kind |-> "int", str |-> "", num |-> number]

Fragments == {StrFrag("conn "), IntFrag(42)}

\* the fragment only thread i appends in the concurrent scenario
UniqueFragment(i) == IntFrag(100 + i)

ToText(value) == IF value.kind = "int" THEN ToString(value.num) ELSE value.str

VARIABLES
    logLevel,     \* agora's level store: partition -> minimum level
    sink,         \* sequence of writeDLog calls received by agora
    ret,          \* value returned by the last logDebug / logTrace call
    live,         \* lifetime of each DLogger: "none", "Building", "Finalized"
    mLoggerName,  \* DLogger::mLoggerName
    mLevel,       \* DLogger::mLevel
    mOutStream,   \* DLogger::mOutStream (its accumulated text)
    clogArgs,     \* history: the (LEVEL, MOD) tokens written at the call site
    appended,     \* history: the values passed to operator<<, in call order
    ctorEnabled,  \* history: was (partition, level) enabled at construction
    seen,         \* history: the level in force when the instance finalized
    nQuery,       \* history: number of getLogLevel calls made for the instance
    sinkFailed    \* history: the sink failed on the instance's writeDLog call

vars == <<logLevel, sink, ret, live, mLoggerName, mLevel, mOutStream,
          clogArgs, appended, ctorEnabled, seen, nQuery, sinkFailed>>

dlogger == <<live, mLoggerName, mLevel, mOutStream>>
history == <<clogArgs, appended, ctorEnabled, seen, nQuery, sinkFailed>>

\* ret.flipped: the answer differs from the one the preceding call of the same
\* function for the same partition returned; ret.tick alternates with every
\* call, so that a call returning what the last one returned is a step too;
\* ret.stale: the level of ret.partition has been reconfigured since the call
NoRet == [fn |-> "none", partition |-> "", result |-> FALSE, flipped |-> FALSE,
          tick |-> FALSE, stale |-> FALSE]

NoArgs == [LEVEL |-> "", MOD |-> ""]

(***************************************************************************)
(* agora.utils.Log, declared at Logging.h lines 21-22.                     *)
(***************************************************************************)
getLogLevel(logger) == logLevel[logger]

writeDLog(calls, logger, level, msg, caller) ==
    Append(calls, [logger |-> logger, level |-> level, msg |-> msg,
                   from |-> caller])

\* reconfiguration of one partition's minimum level by the host
Reconfigure(p, l) ==
    /\ l # logLevel[p]
    /\ logLevel' = [logLevel EXCEPT ![p] = l]
    /\ ret' = IF ret.partition = p THEN [ret EXCEPT !.stale = TRUE] ELSE ret
    /\ UNCHANGED <<sink, dlogger, history>>

(***************************************************************************)
(* LevelGate: severity S is enabled for partition P iff S >= minimum.      *)
(***************************************************************************)
isEnabled(partition, severity) == severity >= getLogLevel(partition)

(***************************************************************************)
(* Logging::logDebug / Logging::logTrace, Logging.h lines 33-40.           *)
(***************************************************************************)
\* a pre-check that asks for one fixed logger instead of its argument
logDebug_fixed(partition) == getLogLevel("net") <= DEBUG

\* a strict comparison in place of <=
logDebug_strict(partition) == getLogLevel(partition) < DEBUG
logDebug(partition) == getLogLevel(partition) <= DEBUG

\* a gate that remembers its last answer for the partition
logTrace_cached(partition) ==
    IF ret.fn = "logTrace" /\ ret.partition = partition
    THEN ret.result
    ELSE getLogLevel(partition) <= TRACE
logTrace(partition) == getLogLevel(partition) <= TRACE

Returned(fn, p, result) ==
    [fn |-> fn, partition |-> p, result |-> result,
     flipped |-> ret.fn = fn /\ ret.partition = p /\ ret.result # result,
     tick |-> ~ret.tick, stale |-> FALSE]

CallLogDebug(p) ==
    /\ ret' = Returned("logDebug", p, logDebug(p))
    /\ UNCHANGED <<logLevel, sink, dlogger, history>>

CallLogTrace(p) ==
    /\ ret' = Returned("logTrace", p, logTrace(p))
    /\ UNCHANGED <<logLevel, sink, dlogger, history>>

(***************************************************************************)
(* DLogger, Logging.h lines 44-61.                                         *)
(***************************************************************************)
\* DLogger::DLogger(int level, std::string const& loggerName)
DLogger(i, level, loggerName) ==
    /\ live[i] = "none"
    /\ live' = [live EXCEPT ![i] = "Building"]
    /\ mLevel' = [mLevel EXCEPT ![i] = level]
    /\ mLoggerName' = [mLoggerName EXCEPT ![i] = loggerName]
    /\ mOutStream' = [mOutStream EXCEPT ![i] = ""]
    /\ ctorEnabled' = [ctorEnabled EXCEPT ![i] = isEnabled(loggerName, level)]
    /\ UNCHANGED <<logLevel, sink, ret, appended, seen, nQuery, sinkFailed>>

\* a CLOG that allocates the DLogger with new and never deletes it
CLOG_leak(i, LEVEL, MOD) ==
    /\ live[i] = "none"
    /\ live' = [live EXCEPT ![i] = "Leaked"]
    /\ clogArgs' = [clogArgs EXCEPT ![i] = [LEVEL |-> LEVEL, MOD |-> MOD]]
    /\ mLevel' = [mLevel EXCEPT ![i] = LevelOf[LEVEL]]
    /\ mLoggerName' = [mLoggerName EXCEPT ![i] = MOD]
    /\ mOutStream' = [mOutStream EXCEPT ![i] = ""]
    /\ ctorEnabled' = [ctorEnabled EXCEPT ![i] = isEnabled(MOD, LevelOf[LEVEL])]
    /\ UNCHANGED <<logLevel, sink, ret, appended, seen, nQuery, sinkFailed>>

\* #define CLOG(LEVEL, MOD) stellar::DLogger(LEVEL, MOD)
CLOG(i, LEVEL, MOD) ==
    /\ clogArgs' = [clogArgs EXCEPT ![i] = [LEVEL |-> LEVEL, MOD |-> MOD]]
    /\ DLogger(i, LevelOf[LEVEL], MOD)

\* mOutStream << value
StreamInsert_prepend(out, value) == ToText(value) \o out
StreamInsert(out, value) == out \o ToText(value)

\* a static mOutStream: every instance writes the one shared buffer
operator_shl_shared(i, value) ==
    /\ live[i] = "Building"
    /\ Len(appended[i]) < MaxAppends
    /\ mOutStream' = [j \in Instances |-> StreamInsert(mOutStream[j], value)]
    /\ appended' = [appended EXCEPT ![i] = Append(@, value)]
    /\ UNCHANGED <<logLevel, sink, ret, live, mLoggerName, mLevel,
                   clogArgs, ctorEnabled, seen, nQuery, sinkFailed>>

\* an operator<< that checks the level and writes each fragment at once
operator_shl_eager(i, value) ==
    /\ live[i] = "Building"
    /\ Len(appended[i]) < MaxAppends
    /\ mOutStream' = [mOutStream EXCEPT ![i] = StreamInsert(@, value)]
    /\ appended' = [appended EXCEPT ![i] = Append(@, value)]
    /\ nQuery' = [nQuery EXCEPT ![i] = @ + 1]
    /\ sink' = IF getLogLevel(mLoggerName[i]) <= mLevel[i]
               THEN writeDLog(sink, mLoggerName[i], mLevel[i],
                              ToText(value), i)
               ELSE sink
    /\ UNCHANGED <<logLevel, ret, live, mLoggerName, mLevel,
                   clogArgs, ctorEnabled, seen, sinkFailed>>

\* an operator<< that appends to the wrong member
operator_shl_name(i, value) ==
    /\ live[i] = "Building"
    /\ Len(appended[i]) < MaxAppends
    /\ mLoggerName' = [mLoggerName EXCEPT ![i] = @ \o ToText(value)]
    /\ appended' = [appended EXCEPT ![i] = Append(@, value)]
    /\ UNCHANGED <<logLevel, sink, ret, live, mLevel, mOutStream,
                   clogArgs, ctorEnabled, seen, nQuery, sinkFailed>>

\* template <class T> DLogger &operator<<(const T &value)
operator_shl(i, value) ==
    /\ live[i] = "Building"
    /\ Len(appended[i]) < MaxAppends
    /\ mOutStream' = [mOutStream EXCEPT ![i] = StreamInsert(@, value)]
    /\ appended' = [appended EXCEPT ![i] = Append(@, value)]
    /\ UNCHANGED <<logLevel, sink, ret, live, mLoggerName, mLevel,
                   clogArgs, ctorEnabled, seen, nQuery, sinkFailed>>

\* a destructor that decides on the level in force at construction
DLogger_dtor_atCtor(i) ==
    /\ live[i] = "Building"
    /\ live' = [live EXCEPT ![i] = "Finalized"]
    /\ seen' = [seen EXCEPT ![i] = getLogLevel(mLoggerName[i])]
    /\ nQuery' = [nQuery EXCEPT ![i] = @ + 1]
    /\ sink' = IF ctorEnabled[i]
               THEN writeDLog(sink, mLoggerName[i], mLevel[i],
                              mOutStream[i], i)
               ELSE sink
    /\ UNCHANGED <<logLevel, ret, mLoggerName, mLevel, mOutStream,
                   clogArgs, appended, ctorEnabled, sinkFailed>>

\* a destructor that drops a message without text
DLogger_dtor_skipEmpty(i) ==
    /\ live[i] = "Building"
    /\ live' = [live EXCEPT ![i] = "Finalized"]
    /\ seen' = [seen EXCEPT ![i] = getLogLevel(mLoggerName[i])]
    /\ nQuery' = [nQuery EXCEPT ![i] = @ + 1]
    /\ sink' = IF isEnabled(mLoggerName[i], mLevel[i]) /\ mOutStream[i] # ""
               THEN writeDLog(sink, mLoggerName[i], mLevel[i],
                              mOutStream[i], i)
               ELSE sink
    /\ UNCHANGED <<logLevel, ret, mLoggerName, mLevel, mOutStream,
                   clogArgs, appended, ctorEnabled, sinkFailed>>

\* a destructor that can run again on an accumulator already finalized
DLogger_dtor_again(i) ==
    /\ live[i] \in {"Building", "Finalized"}
    /\ live' = [live EXCEPT ![i] = "Finalized"]
    /\ seen' = [seen EXCEPT ![i] = getLogLevel(mLoggerName[i])]
    /\ nQuery' = [nQuery EXCEPT ![i] = @ + 1]
    /\ sink' = IF isEnabled(mLoggerName[i], mLevel[i])
               THEN writeDLog(sink, mLoggerName[i], mLevel[i],
                              mOutStream[i], i)
               ELSE sink
    /\ UNCHANGED <<logLevel, ret, mLoggerName, mLevel, mOutStream,
                   clogArgs, appended, ctorEnabled, sinkFailed>>

\* a destructor out of which the sink's failure escapes: the program ends
DLogger_dtor_throw(i) ==
    \E accepted \in BOOLEAN :
        /\ live[i] = "Building"
        /\ live' = [live EXCEPT ![i] =
                       IF isEnabled(mLoggerName[i], mLevel[i]) /\ ~accepted
                       THEN "Terminated" ELSE "Finalized"]
        /\ seen' = [seen EXCEPT ![i] = getLogLevel(mLoggerName[i])]
        /\ nQuery' = [nQuery EXCEPT ![i] = @ + 1]
        /\ sink' = IF isEnabled(mLoggerName[i], mLevel[i])
                   THEN writeDLog(sink, mLoggerName[i], mLevel[i],
                                  mOutStream[i], i)
                   ELSE sink
        /\ sinkFailed' = [sinkFailed EXCEPT ![i] =
                             isEnabled(mLoggerName[i], mLevel[i]) /\ ~accepted]
        /\ UNCHANGED <<logLevel, ret, mLoggerName, mLevel, mOutStream,
                       clogArgs, appended, ctorEnabled>>

\* DLogger::~DLogger(): query the gate once and, if enabled, hand the text to
\* the sink; the sink accepts the message or fails, and a failure stays
\* inside the destructor
DLogger_dtor(i) ==
    \E accepted \in BOOLEAN :
        /\ live[i] = "Building"
        /\ live' = [live EXCEPT ![i] = "Finalized"]
        /\ seen' = [seen EXCEPT ![i] = getLogLevel(mLoggerName[i])]
        /\ nQuery' = [nQuery EXCEPT ![i] = @ + 1]
        /\ sink' = IF isEnabled(mLoggerName[i], mLevel[i])
                   THEN writeDLog(sink, mLoggerName[i], mLevel[i],
                                  mOutStream[i], i)
                   ELSE sink
        /\ sinkFailed' = [sinkFailed EXCEPT ![i] =
                             isEnabled(mLoggerName[i], mLevel[i]) /\ ~accepted]
        /\ UNCHANGED <<logLevel, ret, mLoggerName, mLevel, mOutStream,
                       clogArgs, appended, ctorEnabled>>

(***************************************************************************)
(* Spec: one log statement of any severity for any partition, with the     *)
(* host reconfiguring levels at any moment.                                *)
(***************************************************************************)
Init ==
    /\ logLevel \in [Partitions -> Levels]
    /\ sink = <<>>
    /\ ret = NoRet
    /\ live = [i \in Instances |-> "none"]
    /\ mLoggerName = [i \in Instances |-> ""]
    /\ mLevel = [i \in Instances |-> 0]
    /\ mOutStream = [i \in Instances |-> ""]
    /\ clogArgs = [i \in Instances |-> NoArgs]
    /\ appended = [i \in Instances |-> <<>>]
    /\ ctorEnabled = [i \in Instances |-> FALSE]
    /\ seen = [i \in Instances |-> 0]
    /\ nQuery = [i \in Instances |-> 0]
    /\ sinkFailed = [i \in Instances |-> FALSE]

Construct == \E n \in SeverityNames, p \in Partitions : CLOG(Stmt, n, p)
AppendValue == \E v \in Fragments : operator_shl(Stmt, v)
ScopeExit == DLogger_dtor(Stmt)
SetLevel == \E p \in Partitions, l \in Levels : Reconfigure(p, l)
PreCheckDebug == \E p \in Partitions : CallLogDebug(p)
PreCheckTrace == \E p \in Partitions : CallLogTrace(p)

Next ==
    \/ Construct
    \/ AppendValue
    \/ ScopeExit
    \/ SetLevel

Spec == Init /\ [][Next]_vars

\* The statement is synchronous call-and-return code and the DLogger is a
\* temporary: once constructed, its scope is left, at the end of the
\* statement or earlier when an exception unwinds it, and the destructor runs.
SpecLive == Spec /\ WF_vars(ScopeExit)

(***************************************************************************)
(* SpecGate: call sites calling the pre-checks at any moment, around one   *)
(* low-severity (TRACE or DEBUG) log statement, with the host              *)
(* reconfiguring levels at any moment.                                     *)
(***************************************************************************)
LowConstruct == \E n \in {"TRACE", "DEBUG"}, p \in Partitions : CLOG(Stmt, n, p)
LowAppend == operator_shl(Stmt, IntFrag(42))

NextGate ==
    \/ PreCheckDebug
    \/ PreCheckTrace
    \/ SetLevel
    \/ LowConstruct
    \/ LowAppend
    \/ ScopeExit

SpecGate == Init /\ [][NextGate]_vars

(***************************************************************************)
(* SpecConc: NumThreads threads, each running one log statement for the    *)
(* same enabled (partition, severity): construct, append the thread's own  *)
(* fragment, leave the scope.  Steps of different threads interleave.      *)
(***************************************************************************)
ThreadConstruct(i) ==
    \E n \in SeverityNames, p \in Partitions :
        /\ isEnabled(p, LevelOf[n])
        /\ \A j \in Instances :
              live[j] # "none" => clogArgs[j] = [LEVEL |-> n, MOD |-> p]
        /\ CLOG(i, n, p)

ThreadAppend(i) ==
    /\ appended[i] = <<>>
    /\ operator_shl(i, UniqueFragment(i))

ThreadExit(i) ==
    /\ appended[i] # <<>>
    /\ DLogger_dtor(i)

NextConc ==
    \/ \E i \in Instances : ThreadConstruct(i)
    \/ \E i \in Instances : ThreadAppend(i)
    \/ \E i \in Instances : ThreadExit(i)

SpecConc == Init /\ [][NextConc]_vars

(***************************************************************************)
(* SpecMulti: NumThreads log statements for the partition "net", at INFO   *)
(* or ERROR, each appending at most its own fragment, interleaved with     *)
(* each other and with the host moving the partition's minimum level       *)
(* between TRACE, WARN and FATAL.                                          *)
(***************************************************************************)
MultiLevels == {TRACE, WARN, FATAL}

InitMulti ==
    /\ Init
    /\ logLevel = [p \in Partitions |-> WARN]

MultiConstruct(i) == \E n \in {"INFO", "ERROR"} : CLOG(i, n, "net")

MultiAppend(i) ==
    /\ appended[i] = <<>>
    /\ operator_shl(i, UniqueFragment(i))

MultiExit(i) == DLogger_dtor(i)

MultiSetLevel == \E l \in MultiLevels : Reconfigure("net", l)

NextMulti ==
    \/ \E i \in Instances : MultiConstruct(i)
    \/ \E i \in Instances : MultiAppend(i)
    \/ \E i \in Instances : MultiExit(i)
    \/ MultiSetLevel

SpecMulti == InitMulti /\ [][NextMulti]_vars

(***************************************************************************)
(* Vocabulary of the properties.                                           *)
(***************************************************************************)
Finalized(i) == live[i] = "Finalized"

\* positions of the sink calls made by instance i
SinkCalls(i) == {k \in 1..Len(sink) : sink[k].from = i}
NSink(i) == Cardinality(SinkCalls(i))

\* the severity instance i was constructed with, as written at the call site
Severity(i) == LevelOf[clogArgs[i].LEVEL]

\* text(F1) ++ ... ++ text(Fn)
RECURSIVE Concat(_)
Concat(fs) == IF fs = <<>> THEN "" ELSE ToText(Head(fs)) \o Concat(Tail(fs))

\* the numbering the specification gives the six names
SpecValue ==
    [n \in SeverityNames |->
        CASE n = "TRACE" -> 0
          [] n = "DEBUG" -> 1
          [] n = "INFO"  -> 2
          [] n = "WARN"  -> 3
          [] n = "ERROR" -> 4
          [] n = "FATAL" -> 5]

\* the numbering Logging.h gives them
HeaderValue ==
    [n \in SeverityNames |->
        CASE n = "TRACE" -> 0
          [] n = "DEBUG" -> 0
          [] n = "INFO"  -> 1
          [] n = "WARN"  -> 2
          [] n = "ERROR" -> 3
          [] n = "FATAL" -> 4]

(***************************************************************************)
(* C1  Level filtering.                                                    *)
(***************************************************************************)
\* C1 as stated: with the names ordered TRACE < DEBUG < INFO < WARN < ERROR <
\* FATAL, an accumulator constructed at S1 whose partition's minimum is S2 at
\* finalization makes no sink call when S1 < S2 and exactly one otherwise;
\* in particular a TRACE accumulator is dropped when the minimum is DEBUG.
C1_Original ==
    \A i \in Instances : \A s2 \in SeverityNames :
        (Finalized(i) /\ seen[i] = LevelOf[s2]) =>
            NSink(i) = IF SpecValue[clogArgs[i].LEVEL] < SpecValue[s2]
                       THEN 0 ELSE 1

\* C1 amended: the order that filters is the numeric one of the macro values,
\* in which TRACE and DEBUG are the same severity.  An accumulator whose
\* severity is below the partition's minimum at finalization makes no sink
\* call, one at or above it makes exactly one, and a TRACE accumulator
\* finalized under a DEBUG minimum is delivered exactly once.
C1_LevelFiltering ==
    \A i \in Instances :
        Finalized(i) =>
            /\ Severity(i) < seen[i] => NSink(i) = 0
            /\ Severity(i) >= seen[i] => NSink(i) = 1
            /\ (clogArgs[i].LEVEL = "TRACE" /\ seen[i] = LevelOf["DEBUG"])
                   => NSink(i) = 1

\* an INFO message with text finalized under a WARN minimum: nothing delivered
C1_Witness ==
    \E i \in Instances :
        /\ Finalized(i)
        /\ clogArgs[i].LEVEL = "INFO"
        /\ seen[i] = LevelOf["WARN"]
        /\ appended[i] # <<>>
        /\ NSink(i) = 0

(***************************************************************************)
(* C2  Per-instance exactly-once.                                          *)
(***************************************************************************)
\* C2: before an accumulator is finalized (not constructed, or building with
\* any number of appends) the level store has not been queried for it and the
\* sink has not been called for it; once finalized the store has been queried
\* exactly once and the sink called at most once.
C2_ExactlyOnce ==
    \A i \in Instances :
        /\ ~Finalized(i) => nQuery[i] = 0 /\ NSink(i) = 0
        /\ Finalized(i) => nQuery[i] = 1 /\ NSink(i) <= 1

\* an accumulator finalized after the largest number of appends, delivered
C2_Witness ==
    \E i \in Instances :
        /\ Finalized(i)
        /\ Len(appended[i]) = MaxAppends
        /\ nQuery[i] = 1
        /\ NSink(i) = 1

(***************************************************************************)
(* C3  Ordered concatenation.                                              *)
(***************************************************************************)
\* C3: the text of every sink call equals the concatenation, in append order
\* and without separators, of the texts of the values appended to the
\* accumulator that made the call.
C3_OrderedConcat ==
    \A k \in 1..Len(sink) : sink[k].msg = Concat(appended[sink[k].from])

\* "conn " then 42 appended and delivered as "conn 42"
C3_Witness ==
    \E k \in 1..Len(sink) :
        /\ Len(appended[sink[k].from]) >= 2
        /\ SubSeq(appended[sink[k].from], 1, 2)
               = <<StrFrag("conn "), IntFrag(42)>>
        /\ sink[k].msg = Concat(appended[sink[k].from])

(***************************************************************************)
(* C4  The latest level governs.                                           *)
(***************************************************************************)
\* C4: when the enablement of an accumulator's (partition, severity) differs
\* between construction and scope exit, the level in force at scope exit
\* decides: enabled then disabled delivers nothing, disabled then enabled
\* delivers exactly once.
C4_LatestLevelGoverns ==
    \A i \in Instances :
        Finalized(i) =>
            /\ (ctorEnabled[i] /\ mLevel[i] < seen[i]) => NSink(i) = 0
            /\ (~ctorEnabled[i] /\ mLevel[i] >= seen[i]) => NSink(i) = 1

\* enabled at construction, minimum raised before scope exit, nothing delivered
C4_Witness ==
    \E i \in Instances :
        /\ Finalized(i)
        /\ ctorEnabled[i]
        /\ mLevel[i] < seen[i]
        /\ NSink(i) = 0

(***************************************************************************)
(* C5  Empty message.                                                      *)
(***************************************************************************)
\* C5: an accumulator finalized with no append while enabled has made exactly
\* one sink call, and its text is the empty string.
C5_EmptyMessage ==
    \A i \in Instances :
        (Finalized(i) /\ appended[i] = <<>> /\ mLevel[i] >= seen[i]) =>
            /\ NSink(i) = 1
            /\ \A k \in SinkCalls(i) : sink[k].msg = ""

\* an empty message that reached the sink
C5_Witness ==
    \E i \in Instances :
        /\ Finalized(i)
        /\ appended[i] = <<>>
        /\ mLevel[i] >= seen[i]
        /\ \E k \in SinkCalls(i) : sink[k].msg = ""

(***************************************************************************)
(* C6  Severity values.                                                    *)
(***************************************************************************)
\* C6 as stated: the six names have the pairwise distinct values TRACE=0,
\* DEBUG=1, INFO=2, WARN=3, ERROR=4, FATAL=5, so every accumulator carries
\* the specification's value of the name it was constructed with.
C6_Original ==
    /\ Cardinality(Levels) = Cardinality(SeverityNames)
    /\ \A i \in Instances :
          live[i] # "none" => mLevel[i] = SpecValue[clogArgs[i].LEVEL]

\* C6 amended: the six names have the values TRACE=0, DEBUG=0, INFO=1,
\* WARN=2, ERROR=3, FATAL=4: five distinct values, TRACE and DEBUG share the
\* value 0, and any two other names have different values; every accumulator
\* carries that value of the name it was constructed with.
C6_SeverityValues ==
    /\ Cardinality(Levels) = 5
    /\ \A a, b \in SeverityNames :
          (LevelOf[a] = LevelOf[b]) <=> (a = b \/ {a, b} = {"TRACE", "DEBUG"})
    /\ \A i \in Instances :
          live[i] # "none" => mLevel[i] = HeaderValue[clogArgs[i].LEVEL]

\* an accumulator constructed with DEBUG carries the level TRACE has
C6_Witness ==
    \E i \in Instances :
        /\ live[i] # "none"
        /\ clogArgs[i].LEVEL = "DEBUG"
        /\ mLevel[i] = LevelOf["TRACE"]

(***************************************************************************)
(* C7  Pre-check predicates.                                               *)
(***************************************************************************)
\* C7: every call of logDebug(P) returns whether the minimum level of P is
\* <= DEBUG, which is isEnabled(P, DEBUG), every call of logTrace(P) returns
\* whether it is <= TRACE, which is isEnabled(P, TRACE), and the call leaves
\* the level store, every accumulator and the sink as they were.
C7_PreChecks ==
    [][ret'.tick # ret.tick =>
          /\ UNCHANGED <<logLevel, sink, dlogger, history>>
          /\ ret'.fn = "logDebug" =>
                /\ ret'.result = (logLevel[ret'.partition] <= LevelOf["DEBUG"])
                /\ ret'.result = isEnabled(ret'.partition, LevelOf["DEBUG"])
          /\ ret'.fn = "logTrace" =>
                /\ ret'.result = (logLevel[ret'.partition] <= LevelOf["TRACE"])
                /\ ret'.result = isEnabled(ret'.partition, LevelOf["TRACE"])
    ]_vars

\* logDebug answered false while an accumulator with text was being built
C7_Witness ==
    /\ ret.fn = "logDebug"
    /\ ~ret.result
    /\ logLevel[ret.partition] > LevelOf["DEBUG"]
    /\ \E i \in Instances : live[i] = "Building" /\ appended[i] # <<>>

(***************************************************************************)
(* C8  The gate is stateless.                                              *)
(***************************************************************************)
\* the severity a pre-check function asks the gate about
GateSeverity(fn) == IF fn = "logDebug" THEN LevelOf["DEBUG"] ELSE LevelOf["TRACE"]

\* C8: the store answers for every partition, and every evaluation of the
\* gate, by a pre-check or by a finalizing accumulator, is true iff the
\* severity is >= the minimum stored for the partition at that step, whatever
\* was stored or answered before.
C8_GateStateless ==
    [][/\ logLevel' \in [Partitions -> Levels]
       /\ \A p \in Partitions : ENABLED CallLogDebug(p) /\ ENABLED CallLogTrace(p)
       /\ ret'.tick # ret.tick =>
             ret'.result = (GateSeverity(ret'.fn) >= logLevel'[ret'.partition])
       /\ \A i \in Instances :
             (live[i] = "Building" /\ live'[i] = "Finalized") =>
                 /\ seen'[i] = logLevel[mLoggerName[i]]
                 /\ (sink' # sink) <=> (mLevel[i] >= logLevel[mLoggerName[i]])
    ]_vars

\* a pre-check whose answer differs from the one the preceding call of the
\* same function for the same partition gave, and agrees with the store
C8_Witness ==
    /\ ret.flipped
    /\ ret.fn = "logTrace"
    /\ ret.result = (LevelOf["TRACE"] >= logLevel[ret.partition])

(***************************************************************************)
(* C9  Concurrent emission.                                                *)
(***************************************************************************)
\* the sink call thread i is expected to make
ThreadMessage(i) ==
    [logger |-> clogArgs[i].MOD, level |-> Severity(i),
     msg |-> ToText(UniqueFragment(i)), from |-> i]

\* C9: under every interleaving of the threads, every message in the sink is
\* exactly one thread's message (its partition, severity and fragment, with
\* no text of another thread), a finalized thread's message is in the sink
\* exactly once, and when all threads have finalized the sink holds exactly
\* NumThreads messages.
C9_ConcurrentEmission ==
    /\ \A k \in 1..Len(sink) : sink[k] = ThreadMessage(sink[k].from)
    /\ \A i \in Instances :
          Finalized(i) =>
              Cardinality({k \in 1..Len(sink) :
                              sink[k].msg = ToText(UniqueFragment(i))}) = 1
    /\ (\A i \in Instances : Finalized(i)) => Len(sink) = NumThreads

\* all threads finalized, the last thread's message delivered first
C9_Witness ==
    /\ \A i \in Instances : Finalized(i)
    /\ Len(sink) = NumThreads
    /\ sink[1].from = NumThreads

(***************************************************************************)
(* C10  Delivered metadata.                                                *)
(***************************************************************************)
\* C10: every sink call carries the partition and the severity given to the
\* constructor of the accumulator that made it; an accumulator finalized
\* while disabled has made no sink call; and a step that appends to an
\* accumulator changes its text only, not its partition or severity.
C10_Metadata ==
    /\ [](/\ \A k \in 1..Len(sink) :
                /\ sink[k].logger = clogArgs[sink[k].from].MOD
                /\ sink[k].level = Severity(sink[k].from)
          /\ \A i \in Instances :
                (Finalized(i) /\ mLevel[i] < seen[i]) => NSink(i) = 0)
    /\ [][\A i \in Instances :
             appended'[i] # appended[i] =>
                 /\ mLoggerName'[i] = mLoggerName[i]
                 /\ mLevel'[i] = mLevel[i]
                 /\ mLoggerName[i] = clogArgs[i].MOD
                 /\ mLevel[i] = Severity(i)
                 /\ mOutStream'[i] # mOutStream[i]
       ]_vars

\* a message with two fragments delivered with its partition and severity
C10_Witness ==
    \E k \in 1..Len(sink) :
        /\ Len(appended[sink[k].from]) = MaxAppends
        /\ sink[k].logger = "storage"
        /\ sink[k].level = LevelOf["ERROR"]
        /\ clogArgs[sink[k].from] = [LEVEL |-> "ERROR", MOD |-> "storage"]

(***************************************************************************)
(* C11  Append is gate- and sink-free.                                     *)
(***************************************************************************)
\* C11: a step that appends to an accumulator makes no query of the level
\* store and no sink call, for that accumulator or any other, whether or not
\* the accumulator's level is enabled at that moment; it changes the
\* accumulator's own text buffer and nothing else of the program.
C11_AppendIsLocal ==
    [][\A i \in Instances :
          appended'[i] # appended[i] =>
              /\ nQuery' = nQuery
              /\ sink' = sink
              /\ UNCHANGED <<logLevel, ret, live, mLoggerName, mLevel, seen>>
              /\ mOutStream'[i] =
                     mOutStream[i] \o ToText(appended'[i][Len(appended'[i])])
              /\ \A j \in Instances \ {i} : mOutStream'[j] = mOutStream[j]
    ]_vars

\* an accumulator with text, enabled right now, and nothing asked or sent
\* for it, next to another accumulator whose buffer is still empty
C11_Witness ==
    \E i, j \in Instances :
        /\ i # j
        /\ live[i] = "Building" /\ appended[i] # <<>>
        /\ isEnabled(mLoggerName[i], mLevel[i])
        /\ nQuery[i] = 0 /\ NSink(i) = 0
        /\ live[j] = "Building" /\ mOutStream[j] = ""

(***************************************************************************)
(* C18  Sink-call accounting.                                              *)
(***************************************************************************)
\* accumulators that finalized while their (partition, severity) was enabled
FinalizedEnabled == {i \in Instances : Finalized(i) /\ mLevel[i] >= seen[i]}

\* C18: in every reachable state the number of sink calls equals the number
\* of accumulators that finalized while enabled, is at most the number of
\* finalized accumulators, and every sink call is that of a finalized
\* accumulator.
C18_SinkAccounting ==
    /\ Len(sink) = Cardinality(FinalizedEnabled)
    /\ Len(sink) <= Cardinality({i \in Instances : Finalized(i)})
    /\ \A k \in 1..Len(sink) : Finalized(sink[k].from)

\* every accumulator finalized, one of them enabled and one disabled
C18_Witness ==
    /\ \A i \in Instances : Finalized(i)
    /\ \E i, j \in Instances :
          /\ i \in FinalizedEnabled
          /\ j \notin FinalizedEnabled
    /\ Len(sink) = Cardinality(FinalizedEnabled)

(***************************************************************************)
(* C12  Accumulator lifecycle.                                             *)
(***************************************************************************)
\* C12: an accumulator comes into existence in Building with an empty
\* buffer; the only change of state out of Building is to Finalized; and
\* once Finalized it stays Finalized with no further append, level query or
\* sink call for it.
C12_Lifecycle ==
    [][\A i \in Instances :
          /\ live'[i] # live[i] =>
                \/ /\ live[i] = "none"
                   /\ live'[i] = "Building"
                   /\ appended'[i] = <<>>
                   /\ mOutStream'[i] = ""
                \/ /\ live[i] = "Building"
                   /\ live'[i] = "Finalized"
          /\ Finalized(i) =>
                /\ live'[i] = "Finalized"
                /\ appended'[i] = appended[i]
                /\ mOutStream'[i] = mOutStream[i]
                /\ nQuery'[i] = nQuery[i]
                /\ seen'[i] = seen[i]
                /\ {k \in 1..Len(sink') : sink'[k].from = i} = SinkCalls(i)
    ]_vars

\* a finalized accumulator, unchanged although the level of its partition
\* has been changed since it finalized
C12_Witness ==
    \E i \in Instances :
        /\ Finalized(i)
        /\ Len(appended[i]) = MaxAppends
        /\ logLevel[mLoggerName[i]] # seen[i]
        /\ nQuery[i] = 1
        /\ NSink(i) = 1

(***************************************************************************)
(* C15  The pre-check agrees with finalization.                            *)
(***************************************************************************)
\* C15: when an accumulator for partition P leaves its scope and the level
\* of P has not been reconfigured since the last pre-check of P, then a
\* DEBUG accumulator delivers nothing if that pre-check was logDebug(P) =
\* false and exactly once if it was true, and likewise a TRACE accumulator
\* against logTrace(P).
C15_PreCheckAgrees ==
    [][\A i \in Instances :
          (/\ live[i] = "Building"
           /\ live'[i] = "Finalized"
           /\ ret.partition = mLoggerName[i]
           /\ ~ret.stale
           /\ \/ ret.fn = "logDebug" /\ clogArgs[i].LEVEL = "DEBUG"
              \/ ret.fn = "logTrace" /\ clogArgs[i].LEVEL = "TRACE") =>
              Cardinality({k \in 1..Len(sink') : sink'[k].from = i})
                  = IF ret.result THEN 1 ELSE 0
    ]_vars

\* logDebug(P) answered false, the level of P was left alone, and a DEBUG
\* accumulator for P with text finalized without a sink call
C15_Witness ==
    \E i \in Instances :
        /\ Finalized(i)
        /\ clogArgs[i].LEVEL = "DEBUG"
        /\ appended[i] # <<>>
        /\ ret.fn = "logDebug"
        /\ ret.partition = mLoggerName[i]
        /\ ~ret.stale
        /\ ~ret.result
        /\ seen[i] = logLevel[mLoggerName[i]]
        /\ NSink(i) = 0

(***************************************************************************)
(* C16  logTrace against logDebug.                                         *)
(***************************************************************************)
\* C16 as stated: logTrace(P) implies logDebug(P) for every partition in
\* every configuration, and with the minimum level of P set to DEBUG,
\* logDebug(P) is true while logTrace(P) is false.
C16_Original ==
    \A p \in Partitions :
        /\ logTrace(p) => logDebug(p)
        /\ logLevel[p] = LevelOf["DEBUG"] => (logDebug(p) /\ ~logTrace(p))

\* C16 amended: logTrace(P) implies logDebug(P) for every partition in every
\* configuration, and so does the converse: the two pre-checks always agree,
\* and with the minimum level of P set to DEBUG both are true.
C16_TraceIffDebug ==
    \A p \in Partitions :
        /\ logTrace(p) <=> logDebug(p)
        /\ logLevel[p] = LevelOf["DEBUG"] => (logDebug(p) /\ logTrace(p))

\* logTrace was called for a partition whose minimum is DEBUG and answered
\* true, as logDebug does for it
C16_Witness ==
    /\ ret.fn = "logTrace"
    /\ ret.result
    /\ ~ret.stale
    /\ logLevel[ret.partition] = LevelOf["DEBUG"]
    /\ logDebug(ret.partition)

(***************************************************************************)
(* C17  Partition isolation.                                               *)
(***************************************************************************)
\* C17: a step that changes the minimum level of a partition Q changes, for
\* every other partition P, neither the answer of logDebug(P) or logTrace(P)
\* nor the gate's answer for any severity, and makes no sink call; and the
\* emit decision of an accumulator is fixed by its severity and the level of
\* its own partition at finalization alone.
C17_PartitionIsolation ==
    [][/\ \A q \in Partitions :
             logLevel'[q] # logLevel[q] =>
                 /\ sink' = sink
                 /\ \A p \in Partitions \ {q} :
                       /\ logDebug(p)' = logDebug(p)
                       /\ logTrace(p)' = logTrace(p)
                       /\ \A s \in Levels : isEnabled(p, s)' = isEnabled(p, s)
       /\ \A i \in Instances :
             (live[i] = "Building" /\ live'[i] = "Finalized") =>
                 (Len(sink') = Len(sink) + 1)
                     <=> (mLevel[i] >= logLevel[clogArgs[i].MOD])
    ]_vars

\* an accumulator for "net" delivered although the level of "storage", which
\* was reconfigured after a pre-check, would have filtered it out
C17_Witness ==
    \E i \in Instances :
        /\ Finalized(i)
        /\ clogArgs[i].MOD = "net"
        /\ NSink(i) = 1
        /\ ret.partition = "storage"
        /\ ret.stale
        /\ logLevel["storage"] > mLevel[i]

(***************************************************************************)
(* C13  Finalization always happens.                                       *)
(***************************************************************************)
\* C13: every constructed accumulator eventually is Finalized, whatever the
\* number of appends made before its scope is left and whatever the sink
\* does, and no accumulator is Finalized without its one emit decision.
C13_AlwaysFinalized ==
    /\ \A i \in Instances : (live[i] # "none") ~> Finalized(i)
    /\ [](\A i \in Instances : Finalized(i) => nQuery[i] = 1)

\* an accumulator whose scope was left before any append, finalized with its
\* decision made, although the sink failed
C13_Witness ==
    \E i \in Instances :
        /\ Finalized(i)
        /\ appended[i] = <<>>
        /\ nQuery[i] = 1
        /\ sinkFailed[i]

(***************************************************************************)
(* C14  A sink failure is contained.                                       *)
(***************************************************************************)
\* C14: when the sink fails on an accumulator's message, the accumulator is
\* Finalized all the same, exactly one sink call was made for it and none is
\* made later (no retry), and the step in which the sink failed changed
\* nothing else: not the level store, not a pre-check result, no other
\* accumulator, no earlier sink call.
C14_SinkFailureContained ==
    /\ [](\A i \in Instances :
             sinkFailed[i] => Finalized(i) /\ NSink(i) = 1 /\ nQuery[i] = 1)
    /\ [][\A i \in Instances :
             (sinkFailed'[i] /\ ~sinkFailed[i]) =>
                 /\ live'[i] = "Finalized"
                 /\ UNCHANGED <<logLevel, ret, mLoggerName, mLevel, mOutStream,
                                appended>>
                 /\ \A j \in Instances \ {i} :
                       /\ live'[j] = live[j]
                       /\ nQuery'[j] = nQuery[j]
                       /\ sinkFailed'[j] = sinkFailed[j]
                 /\ Len(sink') = Len(sink) + 1
                 /\ SubSeq(sink', 1, Len(sink)) = sink
       ]_vars

\* the sink failed on one accumulator's message; the accumulator finalized
\* and another statement carried on and had its message accepted
C14_Witness ==
    \E i, j \in Instances :
        /\ sinkFailed[i]
        /\ Finalized(i)
        /\ NSink(i) = 1
        /\ Finalized(j)
        /\ ~sinkFailed[j]
        /\ NSink(j) = 1
        /\ sink[Len(sink)].from = j

====
